---- MODULE Spec2Model ----
(***************************************************************************)
(* pyspnego, spnego/auth.py: the provider selection of _new_context, the   *)
(* body shared by client() and server().  One invocation unifies the       *)
(* credentials, probes the two native providers (SSPI, GSSAPI), filters    *)
(* the probed protocol lists by the credentials, and picks one proxy class *)
(* which it constructs (or raises ValueError).                             *)
(*                                                                         *)
(* hostname, service and channel_bindings are handed to the constructor    *)
(* untouched and take no part in any decision; they are left out of the    *)
(* state.                                                                  *)
(*                                                                         *)
(* A str argument that the code converts is written character by character *)
(* so that the conversion is computed; str_of gives the str value that the *)
(* code compares and passes on.                                            *)
(***************************************************************************)
EXTENDS Integers, Sequences, FiniteSets, TLC

\* longest credential list a caller passes as `username`
MaxCreds == 2

----------------------------------------------------------------------------
(* Text *)

UpperCase == << "A", "B", "C", "D", "E", "F", "G", "H", "I", "J", "K", "L", "M",
                "N", "O", "P", "Q", "R", "S", "T", "U", "V", "W", "X", "Y", "Z" >>

LowerCase == << "a", "b", "c", "d", "e", "f", "g", "h", "i", "j", "k", "l", "m",
                "n", "o", "p", "q", "r", "s", "t", "u", "v", "w", "x", "y", "z" >>

lower_char(c) ==
    IF \E i \in DOMAIN UpperCase : UpperCase[i] = c
    THEN LowerCase[CHOOSE i \in DOMAIN UpperCase : UpperCase[i] = c]
    ELSE c

\* str.lower() leaving every character as it is
lower_identity(s) == s

\* str.lower(), line 59
lower(s) == [i \in DOMAIN s |-> lower_char(s[i])]

\* the str value of a sequence of characters
RECURSIVE str_of(_)
str_of(chars) == IF chars = << >> THEN "" ELSE chars[1] \o str_of(Tail(chars))

\* the protocol literals the code compares against
credssp == "credssp"

kerberos == "kerberos"

negotiate == "negotiate"

ntlm == "ntlm"

\* protocol arguments a caller passes, character by character: the four
\* names in lower case, two of them in upper and mixed case, and a string
\* that is none of them
ProtocolArgs ==
    { << "n", "t", "l", "m" >>, << "N", "T", "L", "M" >>,
      << "k", "e", "r", "b", "e", "r", "o", "s" >>,
      << "n", "e", "g", "o", "t", "i", "a", "t", "e" >>,
      << "c", "r", "e", "d", "s", "s", "p" >>,
      << "C", "r", "e", "d", "S", "S", "P" >>,
      << "b", "o", "g", "u", "s" >> }

\* line 59 for each protocol argument: protocol.lower()
lowered == [protocol \in ProtocolArgs |-> str_of(lower(protocol))]

----------------------------------------------------------------------------
(* Python lists *)

In(x, list) == \E i \in DOMAIN list : list[i] = x

\* list.remove(x): drops the first occurrence (the code only calls it when
\* x is in the list)
remove(list, x) ==
    LET i == CHOOSE k \in DOMAIN list :
                 list[k] = x /\ \A j \in 1..(k - 1) : list[j] /= x
    IN  SubSeq(list, 1, i - 1) \o SubSeq(list, i + 1, Len(list))

----------------------------------------------------------------------------
(* Collaborators: spnego._credential, spnego.exceptions, spnego._context *)

CredentialKinds ==
    { "CredentialCache", "KerberosCCache", "KerberosKeytab", "NTLMHash", "Password" }

\* Credential.supported_protocols
supported_protocols(cred) ==
    CASE cred = "KerberosCCache" -> << kerberos >>
      [] cred = "KerberosKeytab" -> << kerberos >>
      [] cred = "NTLMHash" -> << ntlm >>
      [] OTHER -> << kerberos, ntlm >>

\* the NegotiateOptions flags that name a provider, lines 66-67
use_flags == { "use_sspi", "use_gssapi", "use_negotiate", "use_ntlm" }

\* the option sets a caller passes: every combination of the provider flags,
\* and a flag that names no provider
OptionArgs == (SUBSET use_flags) \cup { { "session_key" } }

\* the context requirements a caller passes: each of the two the selection
\* reads (line 76), and one it does not read
ContextReqArgs ==
    { { "mutual_auth" }, { "mutual_auth", "delegate" }, { "delegate_policy" } }

\* credential lists of 1..MaxCreds entries
CredentialLists ==
    UNION { [1..n -> CredentialKinds] : n \in 1..MaxCreds }

\* the `username` argument: absent, a string, one Credential, a list
UsernameArgs ==
    { [form |-> "absent", value |-> << >>], [form |-> "str", value |-> << >>] }
    \cup { [form |-> "Credential", value |-> << c >>] : c \in CredentialKinds }
    \cup { [form |-> "list", value |-> l] : l \in CredentialLists }

\* the (username, password) pairs a caller of client() passes: every form of
\* username without a password, a string with one, and a Credential and a
\* list with one
CredentialArgs ==
    { [username |-> u, password |-> FALSE] : u \in UsernameArgs }
    \cup { [username |-> [form |-> "str", value |-> << >>], password |-> TRUE],
           [username |-> [form |-> "Credential", value |-> << "Password" >>],
            password |-> TRUE],
           [username |-> [form |-> "list", value |-> << "NTLMHash" >>],
            password |-> TRUE] }

\* unify_credentials(username, password)
unify_credentials(username, password) ==
    CASE username.form = "absent" ->
            [ok |-> TRUE, credentials |-> << "CredentialCache" >>]
      [] username.form = "str" /\ ~password ->
            [ok |-> TRUE, credentials |-> << "CredentialCache" >>]
      [] username.form = "str" /\ password ->
            [ok |-> TRUE, credentials |-> << "Password" >>]
      [] username.form \in { "Credential", "list" } /\ ~password ->
            [ok |-> TRUE, credentials |-> username.value]
      [] OTHER ->
            [ok |-> FALSE, credentials |-> << >>]

\* what a native provider's available_protocols() can return: any
\* duplicate-free list of kerberos, negotiate, ntlm in the providers' order
AvailableLists ==
    { SelectSeq(<< kerberos, negotiate, ntlm >>, LAMBDA p : p \in S) :
        S \in SUBSET { kerberos, negotiate, ntlm } }

----------------------------------------------------------------------------
(* _new_context, lines 48-134 *)

\* lines 61-62: each list is the value available_protocols() returns to this
\* invocation; `cached`, the list an earlier invocation was handed and
\* filtered, is not consulted
probe_memoized(available, cached) ==
    IF cached = << >> THEN available ELSE cached

probe(available, cached) == available

\* line 68
use_specified(options) == options \cap use_flags /= {}

\* line 76
forwardable(context_req) ==
    "delegate" \in context_req \/ "delegate_policy" \in context_req

\* lines 78-85 with only the first credential examined
gssapi_cred_loop_first_only(credentials, i, fwd, gssapi_protocols) ==
    IF supported_protocols(credentials[1]) = << kerberos >>
       \/ (fwd /\ credentials[1] \in { "Password", "KerberosKeytab" })
    THEN remove(gssapi_protocols, negotiate)
    ELSE gssapi_protocols

\* lines 78-85 without the delegation branch of lines 83-85
RECURSIVE gssapi_cred_loop_no_delegation(_, _, _, _)
gssapi_cred_loop_no_delegation(credentials, i, fwd, gssapi_protocols) ==
    IF i > Len(credentials) THEN gssapi_protocols
    ELSE IF supported_protocols(credentials[i]) = << kerberos >>
         THEN remove(gssapi_protocols, negotiate)
         ELSE gssapi_cred_loop_no_delegation(credentials, i + 1, fwd, gssapi_protocols)

\* lines 78-85: the loop over the credentials from position i, leaving at
\* the first credential that matches either test
RECURSIVE gssapi_cred_loop(_, _, _, _)
gssapi_cred_loop(credentials, i, fwd, gssapi_protocols) ==
    IF i > Len(credentials) THEN gssapi_protocols
    ELSE IF supported_protocols(credentials[i]) = << kerberos >>
         THEN remove(gssapi_protocols, negotiate)
         ELSE IF fwd /\ credentials[i] \in { "Password", "KerberosKeytab" }
              THEN remove(gssapi_protocols, negotiate)
              ELSE gssapi_cred_loop(credentials, i + 1, fwd, gssapi_protocols)

\* lines 75-85
filter_gssapi_negotiate(credentials, context_req, gssapi_protocols) ==
    IF In(negotiate, gssapi_protocols)
    THEN gssapi_cred_loop(credentials, 1, forwardable(context_req), gssapi_protocols)
    ELSE gssapi_protocols

\* lines 91-95 with only ntlm removed
strip_ntlm_only(protocol_list) ==
    IF In(ntlm, protocol_list) THEN remove(protocol_list, ntlm) ELSE protocol_list

\* lines 91-95, for one of the two lists
strip_ntlm_negotiate(protocol_list) ==
    LET without_ntlm ==
            IF In(ntlm, protocol_list) THEN remove(protocol_list, ntlm) ELSE protocol_list
    IN  IF In(negotiate, without_ntlm) THEN remove(without_ntlm, negotiate)
        ELSE without_ntlm

\* lines 88-97, for one of the two lists
filter_ntlm_hash(credentials, protocol_list) ==
    IF \E i \in DOMAIN credentials : credentials[i] = "NTLMHash"
    THEN strip_ntlm_negotiate(protocol_list)
    ELSE protocol_list

\* the proxy classes
ProxyClasses ==
    { "CredSSPProxy", "SSPIProxy", "GSSAPIProxy", "NegotiateProxy", "NTLMProxy" }

\* line 109-110 without the `proto == 'kerberos'` alternative
gssapi_branch_listed_only(proto, options, gssapi_protocols) ==
    "use_gssapi" \in options
    \/ (~use_specified(options) /\ In(proto, gssapi_protocols))

\* the condition of line 106
sspi_branch(proto, options, sspi_protocols) ==
    "use_sspi" \in options
    \/ (~use_specified(options) /\ In(proto, sspi_protocols))

\* the condition of lines 109-110
gssapi_branch(proto, options, gssapi_protocols) ==
    "use_gssapi" \in options
    \/ (~use_specified(options) /\ (proto = kerberos \/ In(proto, gssapi_protocols)))

\* the condition of line 113
negotiate_branch(proto, options) ==
    "use_negotiate" \in options
    \/ (~use_specified(options) /\ proto = negotiate)

\* the condition of line 117
ntlm_branch(proto, options) ==
    "use_ntlm" \in options
    \/ (~use_specified(options) /\ proto = ntlm)

\* lines 103-123 with a provider flag honoured only where the filtered list
\* of that provider still holds the protocol
select_proxy_exclusion_wins(proto, options, sspi_protocols, gssapi_protocols) ==
    IF proto = credssp THEN
        [proxy |-> "CredSSPProxy", proto |-> proto]
    ELSE IF ("use_sspi" \in options /\ ~In(proto, sspi_protocols))
            \/ ("use_gssapi" \in options /\ "use_sspi" \notin options
                /\ proto /= kerberos /\ ~In(proto, gssapi_protocols)) THEN
        [proxy |-> "ValueError", proto |-> proto]
    ELSE IF sspi_branch(proto, options, sspi_protocols) THEN
        [proxy |-> "SSPIProxy", proto |-> proto]
    ELSE IF gssapi_branch(proto, options, gssapi_protocols) THEN
        [proxy |-> "GSSAPIProxy", proto |-> proto]
    ELSE IF negotiate_branch(proto, options) THEN
        [proxy |-> "NegotiateProxy", proto |-> proto]
    ELSE IF ntlm_branch(proto, options) THEN
        [proxy |-> "NTLMProxy", proto |-> IF proto = negotiate THEN ntlm ELSE proto]
    ELSE
        [proxy |-> "ValueError", proto |-> proto]

\* lines 103-123 with the GSSAPI branch tried before the SSPI branch
select_proxy_gssapi_first(proto, options, sspi_protocols, gssapi_protocols) ==
    IF proto = credssp THEN
        [proxy |-> "CredSSPProxy", proto |-> proto]
    ELSE IF gssapi_branch(proto, options, gssapi_protocols) THEN
        [proxy |-> "GSSAPIProxy", proto |-> proto]
    ELSE IF sspi_branch(proto, options, sspi_protocols) THEN
        [proxy |-> "SSPIProxy", proto |-> proto]
    ELSE IF negotiate_branch(proto, options) THEN
        [proxy |-> "NegotiateProxy", proto |-> proto]
    ELSE IF ntlm_branch(proto, options) THEN
        [proxy |-> "NTLMProxy", proto |-> IF proto = negotiate THEN ntlm ELSE proto]
    ELSE
        [proxy |-> "ValueError", proto |-> proto]

\* lines 103-123: the if/elif chain; "ValueError" is the raise of line 123,
\* proto the local as line 119 leaves it
select_proxy(proto, options, sspi_protocols, gssapi_protocols) ==
    IF proto = credssp THEN
        [proxy |-> "CredSSPProxy", proto |-> proto]
    ELSE IF sspi_branch(proto, options, sspi_protocols) THEN
        [proxy |-> "SSPIProxy", proto |-> proto]
    ELSE IF gssapi_branch(proto, options, gssapi_protocols) THEN
        [proxy |-> "GSSAPIProxy", proto |-> proto]
    ELSE IF negotiate_branch(proto, options) THEN
        [proxy |-> "NegotiateProxy", proto |-> proto]
    ELSE IF ntlm_branch(proto, options) THEN
        [proxy |-> "NTLMProxy", proto |-> IF proto = negotiate THEN ntlm ELSE proto]
    ELSE
        [proxy |-> "ValueError", proto |-> proto]

\* no invocation has returned or raised yet
NoResult ==
    [kind |-> "none", proxy |-> "", error |-> "", username |-> << >>,
     context_req |-> {}, usage |-> "", protocol |-> "", options |-> {}]

\* the frame of one invocation of _new_context when it returns or raises:
\* its locals, the collaborators it called in order, and its outcome.
\* sspi_now and gssapi_now are what the providers offer during the
\* invocation, sspi_cached and gssapi_cached the lists of the invocation
\* before
new_context(username, password, context_req, protocol, options, usage, sspi_now, gssapi_now, sspi_cached, gssapi_cached) ==
    LET proto0 == lowered[protocol]
        unified == unify_credentials(username, password)
        creds == unified.credentials
        sspi0 == probe(sspi_now, sspi_cached)
        gssapi0 == probe(gssapi_now, gssapi_cached)
        gssapi1 == filter_gssapi_negotiate(creds, context_req, gssapi0)
        sspi2 == filter_ntlm_hash(creds, sspi0)
        gssapi2 == filter_ntlm_hash(creds, gssapi1)
        choice == select_proxy(proto0, options, sspi2, gssapi2)
        probes == << "unify_credentials", "SSPIProxy.available_protocols",
                     "GSSAPIProxy.available_protocols" >>
    IN  IF ~unified.ok THEN
            \* line 60 raises
            [credentials |-> << >>, sspi_protocols |-> sspi_cached,
             gssapi_protocols |-> gssapi_cached, proto |-> proto0,
             calls |-> << "unify_credentials" >>,
             result |-> [NoResult EXCEPT !.kind = "raise",
                                         !.error = "InvalidCredentialError"]]
        ELSE IF choice.proxy = "ValueError" THEN
            \* line 123 raises
            [credentials |-> creds, sspi_protocols |-> sspi2,
             gssapi_protocols |-> gssapi2, proto |-> choice.proto,
             calls |-> probes,
             result |-> [NoResult EXCEPT !.kind = "raise", !.error = "ValueError"]]
        ELSE
            \* lines 125-134
            [credentials |-> creds, sspi_protocols |-> sspi2,
             gssapi_protocols |-> gssapi2, proto |-> choice.proto,
             calls |-> Append(probes, choice.proxy),
             result |-> [kind |-> "proxy", proxy |-> choice.proxy, error |-> "",
                         username |-> creds, context_req |-> context_req,
                         usage |-> usage, protocol |-> choice.proto,
                         options |-> options]]

----------------------------------------------------------------------------
(* State *)

VARIABLES
    pc,                 \* "returned": an invocation has just ended on the host as it is;
                        \* "idle" otherwise
    sspi_available,     \* what SSPIProxy.available_protocols() returns on this host now
    gssapi_available,   \* what GSSAPIProxy.available_protocols() returns on this host now
    args,               \* the arguments of the last invocation
    credentials,        \* its local `credentials`
    sspi_protocols,     \* its local `sspi_protocols`, as the filtering left it
    gssapi_protocols,   \* its local `gssapi_protocols`, as the filtering left it
    proto,              \* its local `proto`
    calls,              \* the collaborators it called, in order
    result,             \* the proxy it constructed with the constructor's arguments, or what it raised
    first               \* the first invocation of a session and the host it ran on, and
                        \* whether an invocation with other arguments has since had a
                        \* list filtered

vars == << pc, sspi_available, gssapi_available, args, credentials, sspi_protocols,
           gssapi_protocols, proto, calls, result, first >>

NoArgs ==
    [username |-> [form |-> "absent", value |-> << >>], password |-> FALSE,
     context_req |-> {}, protocol |-> << >>, options |-> {}, usage |-> ""]

NoFirst ==
    [set |-> FALSE, args |-> NoArgs, sspi_available |-> << >>,
     gssapi_available |-> << >>, result |-> NoResult, filtered_since |-> FALSE]

Init ==
    /\ pc = "idle"
    /\ sspi_available \in AvailableLists
    /\ gssapi_available \in AvailableLists
    /\ args = NoArgs
    /\ credentials = << >>
    /\ sspi_protocols = << >>
    /\ gssapi_protocols = << >>
    /\ proto = ""
    /\ calls = << >>
    /\ result = NoResult
    /\ first = NoFirst

\* one invocation of _new_context, entry to return or raise
Invoke(username, password, context_req, protocol, options, usage) ==
    \E frame \in { new_context(username, password, context_req, protocol, options,
                                usage, sspi_available, gssapi_available,
                                sspi_protocols, gssapi_protocols) } :
        /\ pc' = "returned"
        /\ args' = [username |-> username, password |-> password,
                    context_req |-> context_req, protocol |-> protocol,
                    options |-> options, usage |-> usage]
        /\ credentials' = frame.credentials
        /\ sspi_protocols' = frame.sspi_protocols
        /\ gssapi_protocols' = frame.gssapi_protocols
        /\ proto' = frame.proto
        /\ calls' = frame.calls
        /\ result' = frame.result
        /\ UNCHANGED << sspi_available, gssapi_available >>

\* client(), lines 137-207
client ==
    /\ pc = "idle"
    /\ \E cred \in CredentialArgs, context_req \in ContextReqArgs,
          protocol \in ProtocolArgs, options \in OptionArgs :
           Invoke(cred.username, cred.password, context_req, protocol, options,
                  "initiate")
    /\ UNCHANGED first

\* server(), lines 210-232
server ==
    /\ pc = "idle"
    /\ \E context_req \in ContextReqArgs, protocol \in ProtocolArgs,
          options \in OptionArgs :
           Invoke([form |-> "absent", value |-> << >>], FALSE, context_req,
                  protocol, options, "accept")
    /\ UNCHANGED first

\* the caller has the context (or the exception); the frame is gone
Return ==
    /\ pc = "returned"
    /\ pc' = "idle"
    /\ args' = NoArgs
    /\ credentials' = << >>
    /\ sspi_protocols' = << >>
    /\ gssapi_protocols' = << >>
    /\ proto' = ""
    /\ calls' = << >>
    /\ result' = NoResult
    /\ UNCHANGED << sspi_available, gssapi_available, first >>

\* between invocations the host's providers change what they offer
HostChange ==
    /\ pc = "idle"
    /\ sspi_available' \in AvailableLists
    /\ gssapi_available' \in AvailableLists
    /\ << sspi_available', gssapi_available' >> /= << sspi_available, gssapi_available >>
    /\ UNCHANGED << pc, args, credentials, sspi_protocols, gssapi_protocols,
                    proto, calls, result, first >>

Next == client \/ server \/ Return \/ HostChange

Spec == Init /\ [][Next]_vars

----------------------------------------------------------------------------
(* A session of several invocations on one host, the frame of the last one *)
(* left in the variables: the first invocation is kept in `first`.         *)

RepeatLists == { << >>, << kerberos, negotiate, ntlm >> }

RepeatCredentials ==
    { << "CredentialCache" >>, << "KerberosKeytab" >>, << "NTLMHash" >> }

RepeatProtocols ==
    { << "n", "t", "l", "m" >>, << "n", "e", "g", "o", "t", "i", "a", "t", "e" >> }

RepeatContextReq == { { "mutual_auth" }, { "mutual_auth", "delegate" } }

RepeatOptions == { {}, { "use_gssapi" } }

InitRepeat ==
    /\ Init
    /\ sspi_available \in RepeatLists
    /\ gssapi_available \in RepeatLists

RepeatInvoke ==
    \E creds \in RepeatCredentials, context_req \in RepeatContextReq,
       protocol \in RepeatProtocols, options \in RepeatOptions :
        Invoke([form |-> "list", value |-> creds], FALSE, context_req, protocol,
               options, "initiate")

\* the first client() call of the session
first_invocation ==
    /\ ~first.set
    /\ RepeatInvoke
    /\ first' = [set |-> TRUE, args |-> args', sspi_available |-> sspi_available,
                 gssapi_available |-> gssapi_available, result |-> result',
                 filtered_since |-> FALSE]

\* a later client() call of the session
later_invocation ==
    /\ first.set
    /\ RepeatInvoke
    /\ first' = [first EXCEPT !.filtered_since =
                     @ \/ (/\ args' /= first.args
                           /\ << sspi_protocols', gssapi_protocols' >>
                                  /= << sspi_available, gssapi_available >>)]

\* the host's providers change what they offer during the session, between
\* two invocations
host_change ==
    /\ sspi_available' \in RepeatLists
    /\ gssapi_available' \in RepeatLists
    /\ << sspi_available', gssapi_available' >> /= << sspi_available, gssapi_available >>
    /\ pc' = "idle"
    /\ UNCHANGED << args, credentials, sspi_protocols, gssapi_protocols,
                    proto, calls, result, first >>

NextRepeat == first_invocation \/ later_invocation \/ host_change

SpecRepeat == InitRepeat /\ [][NextRepeat]_vars

----------------------------------------------------------------------------
(* Vocabulary of the properties *)

\* the spelling of a protocol name
Letters(name) ==
    CASE name = ntlm -> << "n", "t", "l", "m" >>
      [] name = kerberos -> << "k", "e", "r", "b", "e", "r", "o", "s" >>
      [] name = negotiate -> << "n", "e", "g", "o", "t", "i", "a", "t", "e" >>
      [] name = credssp -> << "c", "r", "e", "d", "s", "s", "p" >>

SameLetter(a, b) ==
    a = b \/ \E i \in DOMAIN UpperCase : { a, b } = { UpperCase[i], LowerCase[i] }

\* `chars` spells `name` in some letter case
Spells(chars, name) ==
    /\ Len(chars) = Len(Letters(name))
    /\ \A i \in DOMAIN chars : SameLetter(chars[i], Letters(name)[i])

\* the names each protocol argument spells
spelled ==
    [chars \in ProtocolArgs \cup { << >> } |->
        { name \in { ntlm, kerberos, negotiate, credssp } : Spells(chars, name) }]

\* the protocol argument of the last invocation is `name` in some letter case
Requested(name) == name \in spelled[args.protocol]

Recognized == spelled[args.protocol] /= {}

\* an invocation has ended and its credentials were unified (line 60 returned)
Unified == pc = "returned" /\ credentials /= << >>

HintSet == args.options \cap use_flags /= {}

Constructed(proxy) == result.kind = "proxy" /\ result.proxy = proxy

Holds(kind) == \E i \in DOMAIN credentials : credentials[i] = kind

DelegationRequested ==
    "delegate" \in args.context_req \/ "delegate_policy" \in args.context_req

Constructions == { i \in DOMAIN calls : calls[i] \in ProxyClasses }

----------------------------------------------------------------------------
(* Properties *)

\* C1: an invocation whose protocol is not ntlm, kerberos, negotiate or
\* credssp in any letter case raises the invalid-protocol error, whatever the
\* credentials, options and host, and raises it before unify_credentials
\* and either available_protocols is called; no proxy is constructed.
C1_InvalidProtocolRaisesFirst ==
    (pc = "returned" /\ ~Recognized) =>
        /\ result.kind = "raise"
        /\ result.error = "ValueError"
        /\ calls = << >>

\* C2: a request for credssp in any letter case constructs CredSSPProxy with
\* protocol 'credssp', whatever the credentials, context requirements,
\* provider lists and options, the use_* flags included.
C2_CredSSPUnconditional ==
    (Unified /\ Requested(credssp)) =>
        /\ Constructed("CredSSPProxy")
        /\ result.protocol = credssp

C2_Witness ==
    /\ Unified
    /\ args.protocol = << "C", "r", "e", "d", "S", "S", "P" >>
    /\ "use_gssapi" \in args.options
    /\ Holds("NTLMHash")
    /\ Constructed("CredSSPProxy")

C4_NTLMHashExcludesNative ==
    (Unified /\ ~HintSet /\ Holds("NTLMHash")) =>
        /\ Requested(ntlm) => (Constructed("NTLMProxy") /\ result.protocol = ntlm)
        /\ Requested(negotiate) =>
               (Constructed("NegotiateProxy") /\ result.protocol = negotiate)

C4_Witness ==
    /\ Unified
    /\ ~HintSet
    /\ Len(credentials) > 1
    /\ credentials[1] /= "NTLMHash"
    /\ credentials[Len(credentials)] = "NTLMHash"
    /\ Requested(negotiate)
    /\ In(negotiate, sspi_available)
    /\ In(negotiate, gssapi_available)
    /\ Constructed("NegotiateProxy")

ExcludedFrom(available, filtered) ==
    \E name \in { ntlm, negotiate } :
        Requested(name) /\ In(name, available) /\ ~In(name, filtered)

\* a use_* flag names a provider whose list lost the requested protocol to
\* the credentials
HintConflict ==
    \/ "use_sspi" \in args.options /\ ExcludedFrom(sspi_available, sspi_protocols)
    \/ "use_gssapi" \in args.options /\ ExcludedFrom(gssapi_available, gssapi_protocols)

KerberosOnlyHeld == Holds("KerberosCCache") \/ Holds("KerberosKeytab")

\* C7, as stated: with no use_* flag set and protocol negotiate, a
\* KerberosCCache or KerberosKeytab anywhere among the credentials keeps
\* GSSAPIProxy from being constructed: SSPIProxy is if SSPI offers
\* negotiate, NegotiateProxy otherwise.
C7_KerberosCredSspiIfOffered ==
    (Unified /\ ~HintSet /\ Requested(negotiate) /\ KerberosOnlyHeld) =>
        /\ ~Constructed("GSSAPIProxy")
        /\ IF In(negotiate, sspi_available)
           THEN Constructed("SSPIProxy")
           ELSE Constructed("NegotiateProxy")

\* C7, amended: the same, with SSPIProxy constructed if SSPI offers
\* negotiate and no NTLMHash is among the credentials, NegotiateProxy
\* otherwise.
C7_KerberosCredNeverGssapi ==
    (Unified /\ ~HintSet /\ Requested(negotiate) /\ KerberosOnlyHeld) =>
        /\ ~Constructed("GSSAPIProxy")
        /\ IF In(negotiate, sspi_available) /\ ~Holds("NTLMHash")
           THEN Constructed("SSPIProxy")
           ELSE Constructed("NegotiateProxy")

C7_Witness ==
    /\ Unified
    /\ ~HintSet
    /\ Requested(negotiate)
    /\ ~DelegationRequested
    /\ credentials = << "Password", "KerberosCCache" >>
    /\ In(negotiate, gssapi_available)
    /\ ~In(negotiate, sspi_available)
    /\ Constructed("NegotiateProxy")

\* C8: with no use_* flag set and protocol p one of ntlm, kerberos,
\* negotiate in any letter case, the proxy constructed is SSPIProxy if the
\* filtered SSPI list holds p; else GSSAPIProxy if p is kerberos or the
\* filtered GSSAPI list holds p; else NegotiateProxy if p is negotiate; else
\* NTLMProxy; and it is handed p in lower case.
C8_AutoDetectPrecedence ==
    \A p \in { ntlm, kerberos, negotiate } :
        (Unified /\ ~HintSet /\ Requested(p)) =>
            /\ result.kind = "proxy"
            /\ result.protocol = p
            /\ result.proxy =
                   IF In(p, sspi_protocols) THEN "SSPIProxy"
                   ELSE IF p = kerberos \/ In(p, gssapi_protocols) THEN "GSSAPIProxy"
                   ELSE IF p = negotiate THEN "NegotiateProxy"
                   ELSE "NTLMProxy"

C8_Witness ==
    /\ Unified
    /\ ~HintSet
    /\ args.protocol = << "N", "T", "L", "M" >>
    /\ In(ntlm, sspi_protocols)
    /\ In(ntlm, gssapi_protocols)
    /\ Constructed("SSPIProxy")
    /\ result.protocol = ntlm

\* C9: whenever NTLMProxy is constructed, whatever the protocol requested
\* and the options, it is handed protocol 'ntlm'.
C9_NTLMProxyGetsNtlm ==
    Constructed("NTLMProxy") => result.protocol = ntlm

\* C10: an invocation with a recognized protocol constructs exactly one
\* proxy and raises nothing, whatever the credentials, options and provider
\* lists; the raise of line 123 happens only for an unrecognized protocol
\* with no use_* flag set, and then no proxy is constructed.
C10_RecognizedAlwaysConstructs ==
    /\ (Unified /\ Recognized) =>
           /\ result.kind = "proxy"
           /\ Cardinality(Constructions) = 1
    /\ (pc = "returned" /\ result.kind = "raise" /\ result.error = "ValueError") =>
           /\ ~Recognized
           /\ ~HintSet
           /\ Constructions = {}

C10_Witness ==
    /\ pc = "returned"
    /\ result.kind = "raise"
    /\ result.error = "ValueError"
    /\ ~Recognized
    /\ args.options = { "session_key" }
    /\ Constructions = {}

====
